---- MODULE Spec2Model ----
(***************************************************************************)
(* A model of asdl/py_meta.py (dynamic type checks of ASDL objects and the *)
(* metaprogrammed type registry) and of asdl/typed_arith_parse.py (the     *)
(* Pratt parser for shell-like arithmetic and its command-line entry).     *)
(*                                                                         *)
(* Four specifications share the module:                                   *)
(*   SpecCheck  _CheckType applied to a (value, descriptor) pair           *)
(*   SpecObj    one DebugCompoundObj: __init__ then repeated __setattr__   *)
(*   SpecTypes  MakeTypes over a schema module                             *)
(*   SpecParse  main(argv): ParseShell and the prints that follow          *)
(***************************************************************************)
EXTENDS Integers, Sequences, FiniteSets, TLC

VARIABLES
  value, expected_desc, check_result, check_pc,   \* _CheckType harness
  obj, last, obj_pc,                              \* one DebugCompoundObj
  module, root, types_pc,                         \* MakeTypes
  argv, tree, stdout, stderr, raised, main_pc     \* main

check_vars == <<value, expected_desc, check_result, check_pc>>
obj_vars   == <<obj, last, obj_pc>>
types_vars == <<module, root, types_pc>>
main_vars  == <<argv, tree, stdout, stderr, raised, main_pc>>
vars == <<check_vars, obj_vars, types_vars, main_vars>>

(***************************************************************************)
(* Bounds of the model.                                                    *)
(***************************************************************************)
MaxListLen == 2     \* longest Python list among the checked values
MaxDescDepth == 1   \* nesting of Maybe/Array around a base descriptor
MaxArgs == 3        \* most positional arguments given to a constructor
MaxKwargs == 2      \* most keyword arguments given to a constructor
MaxDfns == 3        \* most definitions of a schema module
MaxCons == 2        \* most constructors of a sum type
MaxTokens == 5      \* most tokens of an expression, the eof not counted

(***************************************************************************)
(* Python values.  Every value carries its class; cls is value.__class__.  *)
(***************************************************************************)
StrV(s)  == [cls |-> "str", v |-> s]
IntV(i)  == [cls |-> "int", v |-> i]
BoolV(b) == [cls |-> "bool", v |-> b]          \* b is 0 or 1
NoneV    == [cls |-> "NoneType"]
ListV(items) == [cls |-> "list", items |-> items]
\* An instance of a class generated by MakeTypes; only its class matters to
\* _CheckType.
ObjV(c)  == [cls |-> c, id |-> 0]

\* The classes a built-in class derives from, itself included: Python's bool
\* is a subclass of int.
Bases(c) == IF c = "bool" THEN {"bool", "int"} ELSE {c}

\* isinstance(value, cls)
IsInstance(val, c) == c \in Bases(val.cls)

(***************************************************************************)
(* Type descriptors (asdl.StrType, ..., asdl.Sum).  Product, Sum and       *)
(* Constructor descriptors are objects compared with `is`; schema names    *)
(* are unique, so equal records stand for the same object.  A field is a   *)
(* pair [name, desc].                                                      *)
(***************************************************************************)
StrType  == [kind |-> "StrType"]
IntType  == [kind |-> "IntType"]
BoolType == [kind |-> "BoolType"]
UserType(typ)  == [kind |-> "UserType", typ |-> typ]
MaybeType(d)   == [kind |-> "MaybeType", desc |-> d]
ArrayType(d)   == [kind |-> "ArrayType", desc |-> d]
Product(n, fields)     == [kind |-> "Product", name |-> n, fields |-> fields]
Constructor(n, fields) == [kind |-> "Constructor", name |-> n, fields |-> fields]
Sum(n, types)          == [kind |-> "Sum", name |-> n, types |-> types]
\* An object that is none of the descriptor classes.
OtherDesc == [kind |-> "NotADescriptor"]
\* Obj.ASDL_TYPE = None, inherited by a class that sets no ASDL_TYPE.
NoneDesc  == [kind |-> "None"]
Field(n, d) == [name |-> n, desc |-> d]

\* asdl.is_simple(sum): no constructor has fields.
is_simple(sum_type) ==
  \A i \in 1..Len(sum_type.types) : sum_type.types[i].fields = << >>

(***************************************************************************)
(* MakeTypes(module, root, type_lookup).  root maps each attribute set on  *)
(* it to a class: its base, the ASDL_TYPE and tag of its class_attr (a set *)
(* of at most one element, empty when the class sets none), and its static *)
(* members: enum_id of the singleton instance for a simple sum, the tag    *)
(* numbers for the tag enum of a compound sum.                             *)
(***************************************************************************)
NoMembers == [n \in {} |-> 0]
Class(base, asdl_type, tag, members) ==
  [base |-> base, ASDL_TYPE |-> asdl_type, tag |-> tag, members |-> members]

SetAttr(r, name, cls) == (name :> cls) @@ r

\* enum_id = i + 1, for the i-th (from 0) constructor of a simple sum.
EnumId(i) == i + 1

\* tag = i, the numbering from 0 that enumerate() yields.
Tag_FromZero(i) == i

\* tag = i + 1, for the i-th (from 0) constructor of a compound sum.
Tag(i) == i + 1

\* for i, cons in enumerate(sum_type.types): val = cls(enum_id, cons.name);
\* setattr(cls, name, val).  n constructors are done, the later of a name
\* winning.
RECURSIVE Singletons(_, _)
Singletons(types, n) ==
  IF n = 0 THEN NoMembers
  ELSE (types[n].name :> EnumId(n - 1)) @@ Singletons(types, n - 1)

\* tag_num[cons.name] = tag, over the first n constructors.
RECURSIVE TagNum(_, _)
TagNum(types, n) ==
  IF n = 0 THEN NoMembers
  ELSE (types[n].name :> Tag(n - 1)) @@ TagNum(types, n - 1)

\* cls = type(cons.name, (base_class, ), class_attr); setattr(root, ...), for
\* the constructors from the n-th on.
RECURSIVE ConsClasses(_, _, _, _)
ConsClasses(r, base_name, types, n) ==
  IF n > Len(types) THEN r
  ELSE ConsClasses(
         SetAttr(r, types[n].name,
                 Class(base_name, {types[n]}, {Tag(n - 1)}, NoMembers)),
         base_name, types, n + 1)

MakeSimpleSum(r, defn) ==
  SetAttr(r, defn.name \o "_e",
          Class("SimpleObj", {defn.value}, {},
                Singletons(defn.value.types, Len(defn.value.types))))

MakeCompoundSum(r, defn) ==
  LET r1 == SetAttr(r, defn.name, Class("DebugCompoundObj", {}, {}, NoMembers))
      r2 == ConsClasses(r1, defn.name, defn.value.types, 1)
  IN  SetAttr(r2, defn.name \o "_e",
              Class("object", {}, {},
                    TagNum(defn.value.types, Len(defn.value.types))))

MakeProduct(r, defn) ==
  SetAttr(r, defn.name, Class("DebugCompoundObj", {defn.value}, {}, NoMembers))

\* The loop over module.dfns from the i-th definition on; a definition that
\* is neither a Sum nor a Product raises AssertionError and leaves root as
\* built so far.
RECURSIVE MakeTypesFrom(_, _, _)
MakeTypesFrom(dfns, r, i) ==
  IF i > Len(dfns) THEN [exc |-> "", root |-> r]
  ELSE LET defn == dfns[i]
           typ == defn.value
       IN  IF typ.kind = "Sum"
           THEN MakeTypesFrom(dfns,
                  IF is_simple(typ) THEN MakeSimpleSum(r, defn)
                  ELSE MakeCompoundSum(r, defn), i + 1)
           ELSE IF typ.kind = "Product"
           THEN MakeTypesFrom(dfns, MakeProduct(r, defn), i + 1)
           ELSE [exc |-> "AssertionError", root |-> r]

EmptyRoot == [n \in {} |-> Class("object", {}, {}, NoMembers)]
MakeTypes(dfns) == MakeTypesFrom(dfns, EmptyRoot, 1)

\* cls.tag: the class's own attribute, else the one it inherits;
\* CompoundObj.tag and DebugCompoundObj.tag are None (the empty set here).
RECURSIVE TagOf(_, _)
TagOf(r, c) ==
  IF c \notin DOMAIN r THEN {}
  ELSE IF r[c].tag # {} THEN r[c].tag
  ELSE TagOf(r, r[c].base)

(***************************************************************************)
(* _CheckType(value, expected_desc).  r is the registry MakeTypes built,   *)
(* which gives each generated class its ASDL_TYPE.  The result is "True",  *)
(* "False" or the exception raised, "AssertionError".                      *)
(***************************************************************************)
PyBool(b) == IF b THEN "True" ELSE "False"

\* value.__class__.ASDL_TYPE: the class's own attribute, else the inherited
\* Obj.ASDL_TYPE (None); the empty set when the lookup raises AttributeError
\* (a built-in class, or a generated class that does not derive from Obj).
RECURSIVE ClassASDLType(_, _)
ClassASDLType(r, c) ==
  IF c \in {"Obj", "SimpleObj", "CompoundObj", "DebugCompoundObj"}
  THEN {NoneDesc}
  ELSE IF c \notin DOMAIN r THEN {}
  ELSE IF r[c].ASDL_TYPE # {} THEN r[c].ASDL_TYPE
  ELSE ClassASDLType(r, r[c].base)

\* isinstance(value, int): ints, and bools, which subclass int.
CheckInt(val) == PyBool(IsInstance(val, "int"))

\* The descriptors after Constructor, MaybeType and ArrayType: the
\* primitives, then the lookup of the value's own descriptor.
CheckLeaf(r, val, d) ==
  IF d.kind = "StrType" THEN PyBool(IsInstance(val, "str"))
  ELSE IF d.kind = "IntType" THEN CheckInt(val)
  ELSE IF d.kind = "BoolType" THEN PyBool(IsInstance(val, "bool"))
  ELSE IF d.kind = "UserType" THEN PyBool(IsInstance(val, d.typ))
  ELSE LET actual_desc == ClassASDLType(r, val.cls)
       IN  IF actual_desc = {} THEN "False"
           ELSE IF d.kind = "Product" THEN PyBool(actual_desc = {d})
           ELSE IF d.kind = "Sum"
           THEN IF is_simple(d) THEN PyBool(actual_desc = {d})
                ELSE PyBool(\E i \in 1..Len(d.types) : actual_desc = {d.types[i]})
           ELSE "AssertionError"

RECURSIVE CheckType(_, _, _)
RECURSIVE CheckItems(_, _, _, _)
\* for item in value: if not _CheckType(item, desc): return False
CheckItems(r, items, d, i) ==
  IF i > Len(items) THEN "True"
  ELSE LET c == CheckType(r, items[i], d)
       IN  IF c = "True" THEN CheckItems(r, items, d, i + 1) ELSE c

CheckType(r, val, d) ==
  IF d.kind = "Constructor" THEN "AssertionError"
  ELSE IF d.kind = "MaybeType"
  THEN IF val = NoneV THEN "True" ELSE CheckType(r, val, d.desc)
  ELSE IF d.kind = "ArrayType"
  THEN IF ~IsInstance(val, "list") THEN "False"
       ELSE CheckItems(r, val.items, d.desc, 1)
  ELSE CheckLeaf(r, val, d)

(***************************************************************************)
(* The schema the checks run against.                                      *)
(*   color = Red | Green              simple sum                           *)
(*   op    = Plus                     simple sum                           *)
(*   expr  = Const(int i) | Nil       compound sum                         *)
(*   stmt  = Ret(int v)               compound sum                         *)
(*   point = (int x)                  product                              *)
(*   pair  = (string s)               product                              *)
(***************************************************************************)
Defn(n, v) == [name |-> n, value |-> v]
ConsConst == Constructor("Const", <<Field("i", IntType)>>)
ConsNil   == Constructor("Nil", << >>)
ConsRet   == Constructor("Ret", <<Field("v", IntType)>>)
SumColor  == Sum("color", <<Constructor("Red", << >>), Constructor("Green", << >>)>>)
SumOp     == Sum("op", <<Constructor("Plus", << >>)>>)
SumExpr   == Sum("expr", <<ConsConst, ConsNil>>)
SumStmt   == Sum("stmt", <<ConsRet>>)
ProdPoint == Product("point", <<Field("x", IntType)>>)
ProdPair  == Product("pair", <<Field("s", StrType)>>)
SampleModule ==
  <<Defn("color", SumColor), Defn("op", SumOp), Defn("expr", SumExpr),
    Defn("stmt", SumStmt), Defn("point", ProdPoint), Defn("pair", ProdPair)>>
SampleRoot == MakeTypes(SampleModule).root

\* Values that are not lists: primitives, None, the singletons of the simple
\* sums, and instances of the constructor and product classes.
AtomValues ==
  {StrV("s"), IntV(1), BoolV(1), NoneV}
    \cup {ObjV(c) : c \in {"color_e", "op_e", "Const", "Nil", "Ret", "point", "pair"}}
SeqsUpTo(S, n) == UNION {[1..k -> S] : k \in 0..n}

BaseDescs ==
  {StrType, IntType, BoolType, UserType("str"), SumColor, SumOp, SumExpr,
   SumStmt, ProdPoint, ProdPair, ConsConst, OtherDesc}
RECURSIVE DescsOfDepth(_)
DescsOfDepth(k) ==
  IF k = 0 THEN BaseDescs
  ELSE BaseDescs \cup {MaybeType(d) : d \in DescsOfDepth(k - 1)}
                 \cup {ArrayType(d) : d \in DescsOfDepth(k - 1)}
Descs == DescsOfDepth(MaxDescDepth)

(***************************************************************************)
(* DebugCompoundObj.  An instance holds its class's ASDL_TYPE, the         *)
(* _assigned flags and its __dict__ (the fields set so far).  Every        *)
(* operation yields [exc, field, o]: the exception raised ("" for none),   *)
(* the field its message names, and the instance as the operation left it. *)
(***************************************************************************)
NO_INTEGER == -1

GetFields(t) == t.fields
GetFieldNames(t) == [i \in 1..Len(t.fields) |-> t.fields[i].name]
FieldNameSet(t) == {t.fields[i].name : i \in 1..Len(t.fields)}
\* LookupFieldType(name), for a name the type has.
LookupFieldType(t, name) ==
  (CHOOSE f \in {t.fields[i] : i \in 1..Len(t.fields)} : f.name = name).desc

Return(o) == [exc |-> "", field |-> "", o |-> o]
Raise(exc, field, o) == [exc |-> exc, field |-> field, o |-> o]

\* self._assigned[name] = True; self.__dict__[name] = value
Commit(o, name, val) ==
  [o EXCEPT !.assigned[name] = TRUE, !.dict = (name :> val) @@ @]

\* __setattr__(name, value), for a name other than _assigned.
setattr(o, name, val) ==
  IF name \notin FieldNameSet(o.ASDL_TYPE)
  THEN Raise("AttributeError", name, o)
  ELSE LET desc == LookupFieldType(o.ASDL_TYPE, name)
           c == CheckType(SampleRoot, val, desc)
       IN  IF c = "AssertionError" THEN Raise("AssertionError", "", o)
           ELSE IF c = "False" THEN Raise("AssertionError", name, o)
           ELSE Return(Commit(o, name, val))

\* The value _SetDefaults gives a Maybe field.
MaybeDefault(child) ==
  IF child.kind = "IntType" THEN IntV(NO_INTEGER)
  ELSE IF child.kind = "StrType" THEN StrV("")
  ELSE NoneV

\* _SetDefaults, from the i-th field on.
RECURSIVE SetDefaults(_, _)
SetDefaults(o, i) ==
  LET fields == GetFields(o.ASDL_TYPE)
  IN  IF i > Len(fields) THEN Return(o)
      ELSE LET desc == fields[i].desc
               r == IF desc.kind = "MaybeType"
                    THEN setattr(o, fields[i].name, MaybeDefault(desc.desc))
                    ELSE IF desc.kind = "ArrayType"
                    THEN setattr(o, fields[i].name, ListV(<< >>))
                    ELSE Return(o)
           IN  IF r.exc # "" THEN r ELSE SetDefaults(r.o, i + 1)

\* for i, val in enumerate(args), from the i-th argument on.
RECURSIVE InitArgs(_, _, _)
InitArgs(o, args, i) ==
  LET field_names == GetFieldNames(o.ASDL_TYPE)
  IN  IF i > Len(args) THEN Return(o)
      ELSE IF i > Len(field_names) THEN Raise("IndexError", "", o)
      ELSE LET r == setattr(o, field_names[i], args[i])
           IN  IF r.exc # "" THEN r ELSE InitArgs(r.o, args, i + 1)

\* The test _Init makes before it assigns a keyword argument.
IsDuplicate(o, name) == o.assigned[name]

\* for name, val in kwargs.items(), from the i-th item on.
RECURSIVE InitKwargs(_, _, _)
InitKwargs(o, kwargs, i) ==
  IF i > Len(kwargs) THEN Return(o)
  ELSE LET name == kwargs[i].name
       IN  IF name \notin DOMAIN o.assigned THEN Raise("KeyError", name, o)
           ELSE IF IsDuplicate(o, name) THEN Raise("TypeError", name, o)
           ELSE LET r == setattr(o, name, kwargs[i].val)
                IN  IF r.exc # "" THEN r ELSE InitKwargs(r.o, kwargs, i + 1)

\* _Init with its early return taken ("Disable type checking here").
CheckRequired_Disabled(o, i) == Return(o)

\* for name in field_names: if not self._assigned[name]: raise ValueError
RECURSIVE CheckRequired(_, _)
CheckRequired(o, i) ==
  LET field_names == GetFieldNames(o.ASDL_TYPE)
  IN  IF i > Len(field_names) THEN Return(o)
      ELSE IF ~o.assigned[field_names[i]]
      THEN Raise("ValueError", field_names[i], o)
      ELSE CheckRequired(o, i + 1)

Init_(o, args, kwargs) ==
  LET a == InitArgs(o, args, 1)
  IN  IF a.exc # "" THEN a
      ELSE LET k == InitKwargs(a.o, kwargs, 1)
           IN  IF k.exc # "" THEN k ELSE CheckRequired(k.o, 1)

\* if args or kwargs: whether __init__ goes on to _Init.
CallsInit(args, kwargs) == Len(args) > 0 \/ Len(kwargs) > 0

\* __init__(*args, **kwargs) of a class whose ASDL_TYPE is t.
Construct(t, args, kwargs) ==
  LET o0 == [ASDL_TYPE |-> t,
             assigned |-> [f \in FieldNameSet(t) |-> FALSE],
             dict |-> [f \in {} |-> NoneV]]
      d == SetDefaults(o0, 1)
  IN  IF d.exc # "" THEN d
      ELSE IF CallsInit(args, kwargs) THEN Init_(d.o, args, kwargs)
      ELSE d

\* CheckUnassigned(): the names its ValueError lists (none: no error).
CheckUnassigned(o) ==
  {name \in FieldNameSet(o.ASDL_TYPE) :
     ~o.assigned[name] /\ LookupFieldType(o.ASDL_TYPE, name).kind # "MaybeType"}

(***************************************************************************)
(* The type instantiated in SpecObj, and the values given to it.           *)
(*   rec = (int? m, int* a, int n, bool b)                                 *)
(***************************************************************************)
RecType ==
  Product("rec", <<Field("m", MaybeType(IntType)),
                   Field("a", ArrayType(IntType)),
                   Field("n", IntType), Field("b", BoolType)>>)
CtorValues == {IntV(1), BoolV(1), ListV(<< >>)}
SetValues  == {IntV(1), IntV(2), BoolV(1), NoneV, StrV("s"), ListV(<< >>),
               ListV(<<IntV(1)>>), ListV(<<StrV("s")>>)}
\* Keyword arguments in the order kwargs.items() yields them: pairs
\* [name, val] with distinct names.
RECURSIVE KwargsOfLen(_, _)
KwargsOfLen(names, k) ==
  IF k = 0 THEN {<< >>}
  ELSE {Append(kw, [name |-> n, val |-> v]) :
          kw \in KwargsOfLen(names, k - 1), n \in names, v \in CtorValues}
DistinctNames(kw) ==
  \A i, j \in 1..Len(kw) : i # j => kw[i].name # kw[j].name
Kwargs(names) ==
  {kw \in UNION {KwargsOfLen(names, k) : k \in 0..MaxKwargs} : DistinctNames(kw)}

NoObj == << >>

(***************************************************************************)
(* typed_arith_parse.py.  A token is [type, val]; the lexer gives numbers  *)
(* the type "number", identifiers the type "name", and every operator its  *)
(* own text as type and val; the stream ends with one "eof" token.  A node *)
(* of arith_expr is [tag, val, kids]: the constructor, its string field    *)
(* (op or name) and its child nodes in field order.                        *)
(***************************************************************************)
Token(type, val) == [type |-> type, val |-> val]
Op(text) == Token(text, text)
Eof == Token("eof", "eof")

Node(tag, val, kids) == [tag |-> tag, val |-> val, kids |-> kids]
NoneNode == Node("None", "", << >>)
Const(i) == Node("Const", i, << >>)
ArithVar(name) == Node("ArithVar", name, << >>)
ArithUnary(op, a) == Node("ArithUnary", op, <<a>>)
ArithBinary(op, left, right) == Node("ArithBinary", op, <<left, right>>)
Ternary(cond, true_expr, false_expr) ==
  Node("Ternary", "", <<cond, true_expr, false_expr>>)
FuncCall(name, args) == Node("FuncCall", name, args)
Index(a, index) == Node("Index", "", <<a, index>>)
Slice(a, begin, end, stride) == Node("Slice", "", <<a, begin, end, stride>>)

\* What a handler or ParseUntil yields: the node and the position of the
\* parser's current token, or the exception raised.
Parsed(node, pos) == [err |-> "", node |-> node, pos |-> pos]
Failed(err, pos) == [err |-> err, node |-> NoneNode, pos |-> pos]

\* For overloading of , inside function calls
COMMA_PREC == 1

\* tdop.ParserSpec: Left registers a handler with rbp = lbp, LeftRightAssoc
\* with rbp = lbp - 1.
Left(bp, led) == [lbp |-> bp, rbp |-> bp, led |-> led]
LeftRightAssoc(bp, led) == [lbp |-> bp, rbp |-> bp - 1, led |-> led]
Null(bp, nud) == [bp |-> bp, nud |-> nud]

AssignOps ==
  {"=", "+=", "-=", "*=", "/=", "%=", "<<=", ">>=", "&=", "^=", "|="}

\* The registration of '**' as a left-associative operator.
PowerInfo_LeftAssoc == Left(27, "LeftBinaryOp")

\* spec.LeftRightAssoc(27, LeftBinaryOp, ['**'])
PowerInfo == LeftRightAssoc(27, "LeftBinaryOp")

\* MakeShellParserSpec: the left handler and binding powers of a token type.
\* A type with no left handler has binding power 0 and is never continued.
LeftInfo(type) ==
  CASE type \in {"++", "--"} -> Left(31, "LeftIncDec")
    [] type = "(" -> Left(31, "LeftFuncCall")
    [] type = "[" -> Left(31, "LeftIndex")
    [] type = "**" -> PowerInfo
    [] type \in {"*", "/", "%"} -> Left(25, "LeftBinaryOp")
    [] type \in {"+", "-"} -> Left(23, "LeftBinaryOp")
    [] type \in {"<<", ">>"} -> Left(21, "LeftBinaryOp")
    [] type \in {"<", ">", "<=", ">="} -> Left(19, "LeftBinaryOp")
    [] type \in {"!=", "=="} -> Left(17, "LeftBinaryOp")
    [] type = "&" -> Left(15, "LeftBinaryOp")
    [] type = "^" -> Left(13, "LeftBinaryOp")
    [] type = "|" -> Left(11, "LeftBinaryOp")
    [] type = "&&" -> Left(9, "LeftBinaryOp")
    [] type = "||" -> Left(7, "LeftBinaryOp")
    [] type = "?" -> LeftRightAssoc(5, "LeftTernary")
    [] type \in AssignOps -> LeftRightAssoc(3, "LeftAssign")
    [] type = "," -> Left(COMMA_PREC, "LeftBinaryOp")
    [] OTHER -> Left(0, "LeftError")

\* MakeShellParserSpec: the null handler of a token type.
NullInfo(type) ==
  CASE type \in {"++", "--"} -> Null(29, "NullIncDec")
    [] type \in {"+", "!", "~", "-"} -> Null(29, "NullPrefixOp")
    [] type = "(" -> Null(0, "NullParen")
    [] type \in {"name", "number"} -> Null(-1, "NullConstant")
    [] OTHER -> Null(-1, "NullError")

\* p.AtToken(token_type)
AtToken(toks, pos, type) == toks[pos].type = type

\* p.Eat(val): the position after the token, or ParseError.
Eat(toks, pos, node, type) ==
  IF AtToken(toks, pos, type) THEN Parsed(node, pos + 1)
  ELSE Failed("ParseError", pos)

\* isinstance(node, (arith_expr.ArithVar, arith_expr.Index))
IsAssignable(node) == node.tag \in {"ArithVar", "Index"}

RECURSIVE ParseUntil(_, _, _)

NullConstant(toks, pos, token, bp) ==
  IF token.type = "number" THEN Parsed(Const(token.val), pos)
  ELSE IF token.type = "name" THEN Parsed(ArithVar(token.val), pos)
  ELSE Failed("AssertionError", pos)

NullParen(toks, pos, token, bp) ==
  LET r == ParseUntil(toks, pos, bp)
  IN  IF r.err # "" THEN r ELSE Eat(toks, r.pos, r.node, ")")

NullPrefixOp(toks, pos, token, bp) ==
  LET r == ParseUntil(toks, pos, bp)
  IN  IF r.err # "" THEN r ELSE Parsed(ArithUnary(token.val, r.node), r.pos)

NullIncDec(toks, pos, token, bp) ==
  LET right == ParseUntil(toks, pos, bp)
  IN  IF right.err # "" THEN right
      ELSE IF ~IsAssignable(right.node) THEN Failed("ParseError", right.pos)
      ELSE Parsed(ArithUnary(token.val, right.node), right.pos)

\* tdop.NullError
NullError(toks, pos, token, bp) == Failed("ParseError", pos)

\* token.type = 'post' + token.type
Retag(token) == [token EXCEPT !.type = "post" \o token.type]

LeftIncDec(toks, pos, token, left, rbp) ==
  IF ~IsAssignable(left) THEN Failed("ParseError", pos)
  ELSE Parsed(ArithUnary(Retag(token).val, left), pos)

LeftIndex(toks, pos, token, left, unused_bp) ==
  IF left.tag # "ArithVar" THEN Failed("ParseError", pos)
  ELSE LET index == ParseUntil(toks, pos, 0)
       IN  IF index.err # "" THEN index
           ELSE IF AtToken(toks, index.pos, ":")
           THEN LET end == ParseUntil(toks, index.pos + 1, 0)
                IN  IF end.err # "" THEN end
                    ELSE Eat(toks, end.pos,
                             Slice(left, index.node, end.node, NoneNode), "]")
           ELSE Eat(toks, index.pos, Index(left, index.node), "]")

LeftTernary(toks, pos, token, left, bp) ==
  LET true_expr == ParseUntil(toks, pos, bp)
  IN  IF true_expr.err # "" THEN true_expr
      ELSE IF ~AtToken(toks, true_expr.pos, ":")
      THEN Failed("ParseError", true_expr.pos)
      ELSE LET false_expr == ParseUntil(toks, true_expr.pos + 1, bp)
           IN  IF false_expr.err # "" THEN false_expr
               ELSE Parsed(Ternary(left, true_expr.node, false_expr.node),
                           false_expr.pos)

LeftBinaryOp(toks, pos, token, left, rbp) ==
  LET right == ParseUntil(toks, pos, rbp)
  IN  IF right.err # "" THEN right
      ELSE Parsed(ArithBinary(token.val, left, right.node), right.pos)

\* LeftAssign without its test of the left operand.
LeftAssign_Unchecked(toks, pos, token, left, rbp) ==
  LeftBinaryOp(toks, pos, token, left, rbp)

LeftAssign(toks, pos, token, left, rbp) ==
  IF ~IsAssignable(left) THEN Failed("ParseError", pos)
  ELSE LET right == ParseUntil(toks, pos, rbp)
       IN  IF right.err # "" THEN right
           ELSE Parsed(ArithBinary(token.val, left, right.node), right.pos)

\* while not p.AtToken(')'): args.append(p.ParseUntil(COMMA_PREC));
\* if p.AtToken(','): p.Next()   -- then p.Eat(")")
RECURSIVE FuncArgs(_, _, _, _)
FuncArgs(toks, pos, func_name, args) ==
  IF AtToken(toks, pos, ")") THEN Eat(toks, pos, FuncCall(func_name, args), ")")
  ELSE LET a == ParseUntil(toks, pos, COMMA_PREC)
       IN  IF a.err # "" THEN a
           ELSE FuncArgs(toks,
                         IF AtToken(toks, a.pos, ",") THEN a.pos + 1 ELSE a.pos,
                         func_name, Append(args, a.node))

LeftFuncCall(toks, pos, token, left, unused_bp) ==
  IF left.tag # "ArithVar" THEN Failed("ParseError", pos)
  ELSE FuncArgs(toks, pos, left.val, << >>)

\* tdop.LeftError
LeftError(toks, pos, token, left, rbp) == Failed("ParseError", pos)

\* null_info.nud(self, t, null_info.bp)
Nud(toks, pos, token, info) ==
  CASE info.nud = "NullConstant" -> NullConstant(toks, pos, token, info.bp)
    [] info.nud = "NullParen" -> NullParen(toks, pos, token, info.bp)
    [] info.nud = "NullPrefixOp" -> NullPrefixOp(toks, pos, token, info.bp)
    [] info.nud = "NullIncDec" -> NullIncDec(toks, pos, token, info.bp)
    [] OTHER -> NullError(toks, pos, token, info.bp)

\* left_info.led(self, t, node, left_info.rbp)
Led(toks, pos, token, left, info) ==
  CASE info.led = "LeftIncDec" -> LeftIncDec(toks, pos, token, left, info.rbp)
    [] info.led = "LeftFuncCall" -> LeftFuncCall(toks, pos, token, left, info.rbp)
    [] info.led = "LeftIndex" -> LeftIndex(toks, pos, token, left, info.rbp)
    [] info.led = "LeftTernary" -> LeftTernary(toks, pos, token, left, info.rbp)
    [] info.led = "LeftBinaryOp" -> LeftBinaryOp(toks, pos, token, left, info.rbp)
    [] info.led = "LeftAssign" -> LeftAssign(toks, pos, token, left, info.rbp)
    [] OTHER -> LeftError(toks, pos, token, left, info.rbp)

\* Step 3 of ParseUntil: while the current token's left binding power is
\* strictly greater than rbp, advance and hand the node to its left handler.
RECURSIVE LeftLoop(_, _, _, _)
LeftLoop(toks, pos, rbp, node) ==
  LET info == LeftInfo(toks[pos].type)
  IN  IF rbp >= info.lbp THEN Parsed(node, pos)
      ELSE LET r == Led(toks, pos + 1, toks[pos], node, info)
           IN  IF r.err # "" THEN r ELSE LeftLoop(toks, r.pos, rbp, r.node)

\* Parser.ParseUntil(rbp), the current token being toks[pos].
ParseUntil(toks, pos, rbp) ==
  LET r == Nud(toks, pos + 1, toks[pos], NullInfo(toks[pos].type))
  IN  IF r.err # "" THEN r ELSE LeftLoop(toks, r.pos, rbp, r.node)

\* Parser.Parse(): the expression from the first token, at the lowest bound.
Parse(toks) == ParseUntil(toks, 1, 0)

\* ParseShell(s): MakeParser(s).Parse(); s is given as its tokens.
ParseShell(s) == Parse(s)

(***************************************************************************)
(* Idle values of each group of variables, for the specifications that do  *)
(* not use the group.                                                      *)
(***************************************************************************)
CheckIdle == /\ value = NoneV /\ expected_desc = StrType
             /\ check_result = "" /\ check_pc = "idle"
ObjIdle   == /\ obj = << >> /\ last = << >> /\ obj_pc = "idle"
TypesIdle == /\ module = << >> /\ root = EmptyRoot /\ types_pc = "idle"
MainIdle  == /\ argv = << >> /\ tree = NoneNode /\ stdout = << >> /\ stderr = << >>
             /\ raised = "" /\ main_pc = "idle"

(***************************************************************************)
(* SpecCheck: one call of _CheckType.                                      *)
(***************************************************************************)
CheckInit ==
  /\ \/ value \in AtomValues
     \/ \E k \in 0..MaxListLen : \E items \in [1..k -> AtomValues] :
          value = ListV(items)
  /\ expected_desc \in Descs
  /\ check_result = ""
  /\ check_pc = "call"
  /\ ObjIdle /\ TypesIdle /\ MainIdle

CallCheckType ==
  /\ check_pc = "call"
  /\ check_result' = CheckType(SampleRoot, value, expected_desc)
  /\ check_pc' = "done"
  /\ UNCHANGED <<value, expected_desc, obj_vars, types_vars, main_vars>>

CheckNext == CallCheckType
SpecCheck == CheckInit /\ [][CheckNext]_vars

(***************************************************************************)
(* SpecTypes: MakeTypes over a schema module.  The d-th definition is      *)
(* named t<d> and is a product, a sum of 1..MaxCons constructors, each     *)
(* with or without fields, or a value that is neither (which MakeTypes     *)
(* rejects).                                                               *)
(***************************************************************************)
DefnName(d) == "t" \o ToString(d)
ConsName(d, i) == "T" \o ToString(d) \o "c" \o ToString(i)
SumOfShape(d, has_fields) ==
  Sum(DefnName(d),
      [i \in DOMAIN has_fields |->
         Constructor(ConsName(d, i),
                     IF has_fields[i] THEN <<Field("x", IntType)>> ELSE << >>)])
\* What a definition may be: a product, a value that is no type, or a sum
\* whose i-th constructor has fields where has_fields[i].
Shapes ==
  {[kind |-> "Product"], [kind |-> "NotADescriptor"]}
    \cup {[kind |-> "Sum", has_fields |-> h] :
            h \in UNION {[1..n -> BOOLEAN] : n \in 1..MaxCons}}
DefnOfShape(d, shape) ==
  Defn(DefnName(d),
       IF shape.kind = "Product"
       THEN Product(DefnName(d), <<Field("x", IntType)>>)
       ELSE IF shape.kind = "Sum" THEN SumOfShape(d, shape.has_fields)
       ELSE OtherDesc)

TypesInit ==
  /\ \E k \in 0..MaxDfns : \E shapes \in [1..k -> Shapes] :
       module = [d \in 1..k |-> DefnOfShape(d, shapes[d])]
  /\ root = EmptyRoot
  /\ types_pc = "call"
  /\ CheckIdle /\ ObjIdle /\ MainIdle

CallMakeTypes ==
  /\ types_pc = "call"
  /\ LET r == MakeTypes(module)
     IN  /\ root' = r.root
         /\ types_pc' = IF r.exc = "" THEN "done" ELSE r.exc
  /\ UNCHANGED <<module, check_vars, obj_vars, main_vars>>

TypesNext == CallMakeTypes
SpecTypes == TypesInit /\ [][TypesNext]_vars

(***************************************************************************)
(* SpecObj: an instance is constructed, then its fields are set.  An       *)
(* exception in __init__ leaves the caller without an instance.            *)
(***************************************************************************)
ObjInit ==
  /\ obj = NoObj
  /\ last = [op |-> "none"]
  /\ obj_pc = "new"
  /\ CheckIdle /\ TypesIdle /\ MainIdle

CallConstruct ==
  /\ obj_pc = "new"
  /\ \E args \in SeqsUpTo(CtorValues, MaxArgs), kwargs \in Kwargs(FieldNameSet(RecType)) :
       LET r == Construct(RecType, args, kwargs)
       IN  /\ obj' = IF r.exc = "" THEN r.o ELSE NoObj
           /\ last' = [op |-> "Construct", args |-> args, kwargs |-> kwargs,
                       exc |-> r.exc, field |-> r.field]
           /\ obj_pc' = IF r.exc = "" THEN "live" ELSE "failed"
  /\ UNCHANGED <<check_vars, types_vars, main_vars>>

SetField ==
  /\ obj_pc = "live"
  /\ \E name \in FieldNameSet(obj.ASDL_TYPE) \cup {"zz"}, val \in SetValues :
       LET r == setattr(obj, name, val)
       IN  /\ obj' = r.o
           /\ last' = [op |-> "SetField", name |-> name, val |-> val,
                       exc |-> r.exc, field |-> r.field]
  /\ UNCHANGED <<obj_pc, check_vars, types_vars, main_vars>>

ObjNext == CallConstruct \/ SetField
SpecObj == ObjInit /\ [][ObjNext]_vars

(***************************************************************************)
(* SpecParse: main(argv).  argv holds the arguments after the program      *)
(* name: none, or the expression, given as the tokens the lexer makes of   *)
(* it.  The expressions are all token sequences of up to MaxTokens tokens  *)
(* over one of four alphabets, each followed by the eof token.             *)
(***************************************************************************)
Number(text) == Token("number", text)
Name(text) == Token("name", text)
BinaryAlphabet == {Number("1"), Number("2"), Name("x"),
                   Op("+"), Op("*"), Op("**"), Op("=")}
IncDecAlphabet == {Number("1"), Name("x"), Op("++"), Op("--"), Op("+="),
                   Op("["), Op("]")}
CallAlphabet   == {Number("1"), Number("2"), Name("f"), Op("("), Op(")"),
                   Op(",")}
IndexAlphabet  == {Number("1"), Name("x"), Op("["), Op("]"), Op(":"),
                   Op("?"), Op("-")}
Alphabets == {BinaryAlphabet, IncDecAlphabet, CallAlphabet, IndexAlphabet}

\* tree before main assigns it.
Unbound == Node("<unbound>", "", << >>)

MainInit ==
  /\ argv = << >>
  /\ tree = Unbound
  /\ stdout = << >>
  /\ stderr = << >>
  /\ raised = ""
  /\ main_pc = "call"
  /\ CheckIdle /\ ObjIdle /\ TypesIdle

\* print(tree): the local is read; unbound, the read raises.
PrintTree(t, out) ==
  IF t = Unbound THEN [raised |-> "UnboundLocalError", stdout |-> out]
  ELSE [raised |-> "", stdout |-> Append(out, <<"tree", t>>)]

\* main(argv), from the call to its return or to the exception that leaves
\* it: [tree, stdout, stderr, raised].
main(args) ==
  IF Len(args) = 0
  THEN \* s = argv[1] raises IndexError
       [tree |-> Unbound, stderr |-> << >>, raised |-> "",
        stdout |-> <<<<"Usage: ./arith_parse.py EXPRESSION">>>>]
  ELSE LET r == ParseShell(args[1])
       IN  IF r.err = ""
           THEN [tree |-> r.node, stderr |-> << >>]
                  @@ PrintTree(r.node, << >>)
           ELSE IF r.err = "ParseError"
           THEN [tree |-> Unbound, stderr |-> <<<<"Error parsing">>>>]
                  @@ PrintTree(Unbound, << >>)
           ELSE \* not caught by except tdop.ParseError
                [tree |-> Unbound, stderr |-> << >>, raised |-> r.err,
                 stdout |-> << >>]

MainReturns(args) ==
  LET m == main(args)
  IN  /\ argv' = args
      /\ tree' = m.tree
      /\ stdout' = m.stdout
      /\ stderr' = m.stderr
      /\ raised' = m.raised
      /\ main_pc' = IF m.raised = "" THEN "returned" ELSE "raised"

Main ==
  /\ main_pc = "call"
  /\ \/ MainReturns(<< >>)
     \/ \E A \in Alphabets, k \in 0..MaxTokens :
          \E e \in [1..k -> A] : MainReturns(<<Append(e, Eof)>>)
  /\ UNCHANGED <<check_vars, obj_vars, types_vars>>

MainNext == Main
SpecParse == MainInit /\ [][MainNext]_vars

(***************************************************************************)
(* The structural rules as the specification words them, used to state the *)
(* properties below: exact representation for Str, Int and Bool, exact     *)
(* concrete type for products and sums.                                    *)
(***************************************************************************)
RECURSIVE Conforms(_, _)
Conforms(val, d) ==
  CASE d.kind = "MaybeType" -> val = NoneV \/ Conforms(val, d.desc)
    [] d.kind = "ArrayType" ->
         /\ val.cls = "list"
         /\ \A i \in 1..Len(val.items) : Conforms(val.items[i], d.desc)
    [] d.kind = "StrType" -> val.cls = "str"
    [] d.kind = "IntType" -> val.cls = "int"
    [] d.kind = "BoolType" -> val.cls = "bool"
    [] d.kind = "UserType" -> IsInstance(val, d.typ)
    [] d.kind = "Product" -> val.cls = d.name
    [] d.kind = "Sum" ->
         IF is_simple(d) THEN val.cls = d.name \o "_e"
         ELSE \E i \in 1..Len(d.types) : val.cls = d.types[i].name
    [] OTHER -> FALSE

\* No Constructor and no unknown descriptor below the top of d.
RECURSIVE ValidFieldType(_)
ValidFieldType(d) ==
  IF d.kind \in {"MaybeType", "ArrayType"} THEN ValidFieldType(d.desc)
  ELSE d.kind \notin {"Constructor", "NotADescriptor"}

(***************************************************************************)
(* Properties of Construct (SpecObj).                                      *)
(***************************************************************************)
RecNames == GetFieldNames(RecType)
\* How often the caller supplied a field: by position, and by name.
TimesSupplied(name, args, kwargs) ==
  Cardinality({i \in 1..Len(args) : i <= Len(RecNames) /\ RecNames[i] = name})
    + Cardinality({i \in 1..Len(kwargs) : kwargs[i].name = name})
\* The value the caller supplied for a field supplied once.
Supplied(name, args, kwargs) ==
  IF \E i \in 1..Len(args) : i <= Len(RecNames) /\ RecNames[i] = name
  THEN args[CHOOSE i \in 1..Len(args) : RecNames[i] = name]
  ELSE kwargs[CHOOSE i \in 1..Len(kwargs) : kwargs[i].name = name].val
\* The positions of the non-Maybe, non-Array fields the caller left out.
Missing(args, kwargs) ==
  {i \in 1..Len(RecNames) :
     /\ TimesSupplied(RecNames[i], args, kwargs) = 0
     /\ RecType.fields[i].desc.kind \notin {"MaybeType", "ArrayType"}}
Min(S) == CHOOSE x \in S : \A y \in S : x <= y

\* C1: Construct reports a duplicate assignment, naming the field, if and
\* only if the caller supplied that field more than once; when every field
\* (Maybe and Array fields included) is supplied exactly once, with a value
\* of its type, Construct succeeds and the instance holds the values.
C1_DuplicateIffSuppliedTwice ==
  last.op = "Construct" =>
    /\ last.exc = "TypeError" =>
         TimesSupplied(last.field, last.args, last.kwargs) > 1
    /\ ( /\ Len(last.args) <= Len(RecNames)
         /\ \A i \in 1..Len(RecNames) :
              /\ TimesSupplied(RecNames[i], last.args, last.kwargs) = 1
              /\ Conforms(Supplied(RecNames[i], last.args, last.kwargs),
                          RecType.fields[i].desc) )
       => /\ last.exc = ""
          /\ \A i \in 1..Len(RecNames) :
               obj.dict[RecNames[i]] = Supplied(RecNames[i], last.args, last.kwargs)

C4_SetFieldStep ==
  /\ (last'.op = "SetField" /\ last'.exc = "") => obj'.dict[last'.name] = last'.val
  /\ (last'.op = "SetField" /\ last'.exc # "") => obj' = obj
C4_Step ==
  /\ obj_pc' = "live" =>
       \A name \in DOMAIN obj'.dict :
         Conforms(obj'.dict[name], LookupFieldType(RecType, name))
  /\ C4_SetFieldStep
C4_FieldsConformAndSetFieldIsAtomic == [][C4_Step]_vars
\* The part of C4 that does not rest on exact conformance: the round trip
\* and the atomicity of SetField alone.
C4_SetFieldRoundTripAndAtomic == [][C4_SetFieldStep]_vars

(***************************************************************************)
(* Properties of _CheckType (SpecCheck).                                   *)
(***************************************************************************)
\* C3: _CheckType answers true exactly when the value matches the recursive
\* rules (no coercion between Bool and Int; exact concrete type for products
\* and sums), and a Constructor or unknown descriptor as the expected type
\* is an error, not an answer.
C3_CheckTypeIsExactMatch ==
  (check_pc = "done" /\ ValidFieldType(expected_desc)) =>
    check_result = PyBool(Conforms(value, expected_desc))
C3_InvalidDescriptorIsError ==
  (check_pc = "done" /\ expected_desc.kind \in {"Constructor", "NotADescriptor"}) =>
    check_result = "AssertionError"
C3_StructuralCheck == C3_CheckTypeIsExactMatch /\ C3_InvalidDescriptorIsError

(***************************************************************************)
(* Properties of MakeTypes (SpecTypes).                                    *)
(***************************************************************************)
\* The definitions MakeTypes compiled: those before the first it rejects.
Compiled ==
  {d \in 1..Len(module) :
     \A e \in 1..d : module[e].value.kind \in {"Sum", "Product"}}

\* C9: the tags of the constructors of every compiled Sum are pairwise
\* distinct and equal the 1-based declaration position: the tag attribute
\* and the <name>_e entry for a compound Sum, the enum_id of the singleton
\* for a simple Sum; a Product class has no tag.
C9_TagsFollowDeclarationOrder ==
  types_pc \in {"done", "AssertionError"} =>
    \A d \in Compiled :
      LET typ == module[d].value
          name == module[d].name
      IN  IF typ.kind = "Product" THEN TagOf(root, name) = {}
          ELSE LET enum == root[name \o "_e"].members
               IN  /\ \A i \in 1..Len(typ.types) : enum[typ.types[i].name] = i
                   /\ \A i, j \in 1..Len(typ.types) :
                        i # j => enum[typ.types[i].name] # enum[typ.types[j].name]
                   /\ ~is_simple(typ) =>
                        /\ \A i \in 1..Len(typ.types) :
                             TagOf(root, typ.types[i].name) = {i}
                        /\ \A i, j \in 1..Len(typ.types) :
                             i # j => TagOf(root, typ.types[i].name)
                                        # TagOf(root, typ.types[j].name)

\* Reached: a module with a compound sum of two constructors, a simple sum
\* of two constructors and a product has been compiled.
C9_Witness ==
  /\ types_pc = "done"
  /\ \E d \in 1..Len(module) :
       module[d].value.kind = "Sum" /\ ~is_simple(module[d].value)
         /\ Len(module[d].value.types) = 2
         /\ TagOf(root, module[d].value.types[2].name) = {2}
  /\ \E d \in 1..Len(module) :
       module[d].value.kind = "Sum" /\ is_simple(module[d].value)
         /\ Len(module[d].value.types) = 2
  /\ \E d \in 1..Len(module) : module[d].value.kind = "Product"

(***************************************************************************)
(* Properties of the parser and of main (SpecParse).                       *)
(***************************************************************************)
\* The expression main was given, once it has run with one.
Ran == main_pc # "call" /\ Len(argv) = 1
IsOperand(t) == t.type \in {"number", "name"}
OperandNode(t) == IF t.type = "number" THEN Const(t.val) ELSE ArithVar(t.val)

\* The default table as the specification gives it: the binding power of a
\* binary operator, and the bound its handler recurses with.
TablePower(op) ==
  CASE op = "**" -> 27
    [] op \in {"*", "/", "%"} -> 25
    [] op \in {"+", "-"} -> 23
    [] op \in AssignOps -> 3
    [] op = "," -> 1
TableRightAssoc(op) == op = "**" \/ op \in AssignOps
RecursedWith(op) == IF TableRightAssoc(op) THEN TablePower(op) - 1 ELSE TablePower(op)
BinaryOps == {"+", "*", "**", "="}

\* C5: in "a o1 b o2 c" the operator o2 is absorbed into the right operand
\* of o1 exactly when its binding power is strictly greater than the bound
\* o1 recursed with; otherwise o1's node becomes the left operand of o2.  No
\* tree is returned when that grouping puts a non-assignable node on the
\* left of an assignment.
C5_GroupsByBindingPower ==
  Ran =>
    LET toks == argv[1]
    IN  /\ ( /\ Len(toks) = 4
             /\ IsOperand(toks[1]) /\ toks[2].type \in BinaryOps
             /\ IsOperand(toks[3]) )
           => tree = IF toks[2].type \in AssignOps /\ toks[1].type # "name"
                     THEN Unbound
                     ELSE ArithBinary(toks[2].val, OperandNode(toks[1]),
                                      OperandNode(toks[3]))
        /\ ( /\ Len(toks) = 6
             /\ IsOperand(toks[1]) /\ toks[2].type \in BinaryOps
             /\ IsOperand(toks[3]) /\ toks[4].type \in BinaryOps
             /\ IsOperand(toks[5]) )
           => LET a == OperandNode(toks[1])
                  b == OperandNode(toks[3])
                  c == OperandNode(toks[5])
                  o1 == toks[2].val
                  o2 == toks[4].val
                  absorbed == TablePower(o2) > RecursedWith(o1)
                  assignable ==
                    /\ o1 \in AssignOps => toks[1].type = "name"
                    /\ o2 \in AssignOps => (absorbed /\ toks[3].type = "name")
              IN  tree = IF ~assignable THEN Unbound
                         ELSE IF absorbed
                         THEN ArithBinary(o1, a, ArithBinary(o2, b, c))
                         ELSE ArithBinary(o2, ArithBinary(o1, a, b), c)

\* Reached: "2**1**2" has been parsed to 2 ** (1 ** 2).
C5_Witness ==
  /\ Ran
  /\ argv[1] = <<Number("2"), Op("**"), Number("1"), Op("**"), Number("2"), Eof>>
  /\ tree = ArithBinary("**", Const("2"), ArithBinary("**", Const("1"), Const("2")))

RECURSIVE SubNodes(_)
SubNodes(n) == {n} \cup UNION {SubNodes(n.kids[i]) : i \in 1..Len(n.kids)}
IncDecOps == {"++", "--", "post++", "post--"}

\* C6: in every tree the parser returns, the operand of each '++'/'--'
\* unary node and the left operand of each assignment node is a variable
\* reference or an index expression; a number as that operand ("1++",
\* "++1", "1=...") makes the parse fail with ParseError and no tree.
C6_TargetsAreAssignable ==
  Ran =>
    /\ tree # Unbound =>
         \A n \in SubNodes(tree) :
           /\ (n.tag = "ArithUnary" /\ n.val \in IncDecOps)
                => n.kids[1].tag \in {"ArithVar", "Index"}
           /\ (n.tag = "ArithBinary" /\ n.val \in AssignOps)
                => n.kids[1].tag \in {"ArithVar", "Index"}
    /\ LET toks == argv[1]
       IN  ( /\ Len(toks) >= 3
             /\ \/ toks[1].type = "number" /\ toks[2].type \in {"++", "--"}
                \/ toks[1].type \in {"++", "--"} /\ toks[2].type = "number"
                \/ toks[1].type = "number" /\ toks[2].type \in AssignOps )
           => tree = Unbound /\ stderr # << >>

\* Reached: "++x[1]" has been parsed to a '++' node over an index
\* expression.
C6_Witness ==
  /\ Ran
  /\ argv[1] = <<Op("++"), Name("x"), Op("["), Number("1"), Op("]"), Eof>>
  /\ tree = ArithUnary("++", Index(ArithVar("x"), Const("1")))

\* C7: a postfix '++' or '--' on a variable yields a unary node whose
\* operator is the postfix form, 'post++' or 'post--'.
C7_PostfixIsRetagged ==
  Ran =>
    LET toks == argv[1]
    IN  ( /\ Len(toks) = 3
          /\ toks[1].type = "name" /\ toks[2].type \in {"++", "--"} )
        => tree = ArithUnary("post" \o toks[2].val, ArithVar(toks[1].val))

\* C8: main yields one outcome and returns normally: the usage line alone
\* without an argument; the tree and nothing on the error stream when the
\* parse succeeds; the error on the error stream, no tree printed and no
\* other exception, when the parse fails with ParseError.
C8_MainHasOneOutcome ==
  main_pc # "call" =>
    /\ main_pc = "returned" /\ raised = ""
    /\ Len(argv) = 0 =>
         stdout = <<<<"Usage: ./arith_parse.py EXPRESSION">>>> /\ stderr = << >>
    /\ (Len(argv) = 1 /\ ParseShell(argv[1]).err = "") =>
         stdout = <<<<"tree", ParseShell(argv[1]).node>>>> /\ stderr = << >>
    /\ (Len(argv) = 1 /\ ParseShell(argv[1]).err = "ParseError") =>
         stdout = << >> /\ stderr = <<<<"Error parsing">>>>

\* The tokens between the parentheses of "name ( ... ) eof".
Inner(toks) == SubSeq(toks, 3, Len(toks) - 2)
IsFlatCall(toks) ==
  /\ Len(toks) >= 4
  /\ toks[2].type = "(" /\ toks[Len(toks) - 1].type = ")"
  /\ \A i \in 3..(Len(toks) - 2) : IsOperand(toks[i]) \/ toks[i].type = ","
CommaSeparated(inner) ==
  \/ Len(inner) = 0
  \/ /\ Len(inner) % 2 = 1
     /\ \A i \in 1..Len(inner) :
          IF i % 2 = 1 THEN IsOperand(inner[i]) ELSE inner[i].type = ","
OperandsOf(inner) ==
  [i \in 1..((Len(inner) + 1) \div 2) |-> OperandNode(inner[2 * i - 1])]

\* C10: a call succeeds only on a variable callee with a comma-separated
\* argument list (no argument, or operands with exactly one ',' between
\* each consecutive pair and none trailing), and yields the Call node with
\* the arguments in source order.
C10_CallTakesCommaSeparatedList ==
  (Ran /\ IsFlatCall(argv[1])) =>
    LET toks == argv[1]
    IN  /\ tree # Unbound <=>
             (toks[1].type = "name" /\ CommaSeparated(Inner(toks)))
        /\ tree # Unbound =>
             tree = FuncCall(toks[1].val, OperandsOf(Inner(toks)))

====
